---- MODULE Spec2Model ----
(***************************************************************************)
(* A state-machine model of SawyerPushAndReachTXYEnv and its "easy"        *)
(* variant (multiworld/envs/mujoco/sawyer_xyz/sawyer_push_T.py).           *)
(*                                                                         *)
(* Numbers are fixed-point integers:                                       *)
(*   lengths               1 unit = 1e-3 m   (0.06 m is 60)                *)
(*   angles, joint angles  1 unit = 1e-3 rad (0.2 rad is 200)              *)
(*   quaternion components 1 unit = 1e-4     (1.0 is 10000)                *)
(*   action components     1 unit = 1e-3     (1.0 is 1000)                 *)
(* Python indices are 0-based and half-open; the sequences here are        *)
(* 1-based, so qpos[7:10] of the source is qpos[8], qpos[9], qpos[10].     *)
(*                                                                         *)
(* The physics engine is a black box: do_simulation draws its outcome      *)
(* from a small set of outcomes (PhysOutcomes).                            *)
(***************************************************************************)
EXTENDS Integers, Sequences, FiniteSets, TLC

VARIABLES
    cfg,        \* the constructor's keyword arguments (fixed after __init__)
    goal,       \* self._goal_xyxytheta
    qpos,       \* sim.data.qpos, 28 entries
    qvel,       \* sim.data.qvel, 25 entries
    mocap_pos,  \* sim.data.mocap_pos[0]
    calls,      \* the engine calls made by the last operation, in order
    wrote,      \* the qvel indices (0-based) the last operation assigned
    ret,        \* what the last operation returned or raised
    nsteps,     \* step calls since the last reset, counted up to MaxSteps
    saved       \* the checkpoint the caller holds: <<>> or <<state>>

vars == <<cfg, goal, qpos, qvel, mocap_pos, calls, wrote, ret, nsteps, saved>>

-----------------------------------------------------------------------------
(* Bounds of the model *)

\* step calls explored per episode (the time limit is the caller's)
MaxSteps == 2

-----------------------------------------------------------------------------
(* numpy helpers *)

\* s[a:b]
Slice(s, a, b) == SubSeq(s, a + 1, IF b < Len(s) THEN b ELSE Len(s))

\* s[-1]
Last(s) == s[Len(s)]

\* s[-3:]
Tail3(s) == SubSeq(s, IF Len(s) > 3 THEN Len(s) - 2 ELSE 1, Len(s))

hstack(a, b) == a \o b

RECURSIVE Zeros(_)
Zeros(n) == IF n = 0 THEN <<>> ELSE Append(Zeros(n - 1), 0)

\* elementwise operators raise ValueError unless the shapes broadcast
Broadcasts(m, n) == m = n \/ m = 1 \/ n = 1

RECURSIVE VecAdd(_, _)
VecAdd(a, b) ==
    IF a = <<>> THEN <<>>
    ELSE <<Head(a) + Head(b)>> \o VecAdd(Tail(a), Tail(b))

RECURSIVE VecSub(_, _)
VecSub(a, b) ==
    IF a = <<>> THEN <<>>
    ELSE <<Head(a) - Head(b)>> \o VecSub(Tail(a), Tail(b))

ClipScalar(x, lo, hi) ==
    LET m == IF x < lo THEN lo ELSE x IN IF m > hi THEN hi ELSE m

\* np.clip(v, lo, hi) with vectors lo, hi of v's length
RECURSIVE ClipVec(_, _, _)
ClipVec(v, lo, hi) ==
    IF v = <<>> THEN <<>>
    ELSE <<ClipScalar(Head(v), Head(lo), Head(hi))>>
             \o ClipVec(Tail(v), Tail(lo), Tail(hi))

Abs(x) == IF x < 0 THEN -x ELSE x

RECURSIVE SumSq(_)
SumSq(v) == IF v = <<>> THEN 0 ELSE Head(v) * Head(v) + SumSq(Tail(v))

\* integer square root (floor)
RECURSIVE ISqrt(_)
ISqrt(n) ==
    IF n < 2 THEN n
    ELSE LET s == 2 * ISqrt(n \div 4)
         IN  IF (s + 1) * (s + 1) > n THEN s ELSE s + 1

\* np.linalg.norm at the model's resolution
Norm(v) == ISqrt(SumSq(v))

\* n / d rounded to the nearest unit (halves upward), d > 0
RoundDiv(n, d) == (2 * n + d) \div (2 * d)

-----------------------------------------------------------------------------
(* Orientation conversion *)

\* the angles the model uses: multiples of 0.1 rad in [-1.6, 1.6]
ThetaGrid == {100 * k : k \in -16..16}

\* <<cos(theta/2), sin(theta/2)>> for theta = -1600, -1500, ..., 1600
HalfAngle ==
    << <<6967, -7174>>, <<7317, -6816>>, <<7648, -6442>>, <<7961, -6052>>,
       <<8253, -5646>>, <<8525, -5227>>, <<8776, -4794>>, <<9004, -4350>>,
       <<9211, -3894>>, <<9394, -3429>>, <<9553, -2955>>, <<9689, -2474>>,
       <<9801, -1987>>, <<9888, -1494>>, <<9950, -998>>,  <<9988, -500>>,
       <<10000, 0>>,
       <<9988, 500>>,   <<9950, 998>>,   <<9888, 1494>>,  <<9801, 1987>>,
       <<9689, 2474>>,  <<9553, 2955>>,  <<9394, 3429>>,  <<9211, 3894>>,
       <<9004, 4350>>,  <<8776, 4794>>,  <<8525, 5227>>,  <<8253, 5646>>,
       <<7961, 6052>>,  <<7648, 6442>>,  <<7317, 6816>>,  <<6967, 7174>> >>

\* the rotation by theta about the vertical axis, returned as (w, x, y, z)
theta_to_quat(theta) ==
    LET e == HalfAngle[IF theta % 100 = 0 THEN (theta + 1600) \div 100 + 1 ELSE 0]
    IN  <<e[1], 0, 0, e[2]>>

\* the vertical-axis angle of the rotation (x, y, z, w); defined for the
\* rotations about the vertical axis, which are all the model reads back
quat_to_theta(x, y, z, w) ==
    CHOOSE t \in ThetaGrid : theta_to_quat(t) = <<w, x, y, z>>

-----------------------------------------------------------------------------
(* Configuration *)

\* INIT_HAND_POS
INIT_HAND_POS == <<0, 400, 20>>

\* the defaults of SawyerPushAndReachTXYEnv.__init__
BaseKwargs ==
    [ pos_action_scale |-> <<2, 100>>,      \* 2. / 100
      randomize_goals |-> TRUE,
      puck_goal_low  |-> <<-50, 550, -200>>,
      puck_goal_high |-> <<50, 650, 200>>,
      hand_goal_low  |-> <<-50, 550>>,
      hand_goal_high |-> <<50, 650>>,
      fixed_puck_goal |-> <<50, 600, 0>>,
      fixed_hand_goal |-> <<-50, 600, 0>>,
      mocap_low  |-> <<-100, 500, 0>>,
      mocap_high |-> <<100, 700, 500>>,
      force_puck_in_goal_space |-> FALSE ]

\* the defaults SawyerPushAndReachTXYEasyEnv.__init__ passes on
EasyKwargs ==
    [BaseKwargs EXCEPT !.puck_goal_low = <<-200, 500>>,
                       !.puck_goal_high = <<200, 700>>]

\* the fixed goals of the repeated-reset scenario: a two-scalar hand goal
FixedGoalKwargs ==
    [BaseKwargs EXCEPT !.randomize_goals = FALSE,
                       !.fixed_hand_goal = <<-50, 600>>]

\* The configurations explored.  Only the easy class defines
\* sample_puck_xytheta, which reset calls, so every environment is an easy
\* one: with its own defaults (EasyKwargs), with the base class's bounds
\* passed to it (BaseKwargs) or with the two-scalar fixed hand goal
\* (FixedGoalKwargs), and with goal randomization and the puck constraint
\* switched either way.
Configs ==
    { [k EXCEPT !.randomize_goals = r, !.force_puck_in_goal_space = f] :
        k \in {BaseKwargs, EasyKwargs}, r \in BOOLEAN, f \in BOOLEAN }
    \cup
    { [FixedGoalKwargs EXCEPT !.force_puck_in_goal_space = f] : f \in BOOLEAN }

\* the canonical joint positions (init_angles)
init_angles ==
    << 1780, -684, -155, 2307, 1931, 128, 1494,
       2, 740, 21,
       10000, 0, 0, 0,
       -36, 613, 21,
       7071, 0, 7071, 0,
       0, 600, 20,
       10000, 0, 10000, 0 >>

\* the fixed height set_puck_xytheta and set_goal_xyxytheta write
BodyZ == 20

\* the height the actuator is held at
TargetZ == 60

\* mocap writes per reset and per set_hand_xy
Repeats == 10

\* success threshold on hand_distance + puck_distance
SuccessBelow == 60

-----------------------------------------------------------------------------
(* The simulator *)

\* The joint layout of the scene: 7 arm joints, then one free joint each
\* for the puck, the hand-goal marker and the puck-goal marker.  A free
\* joint has 7 position entries (xyz, quaternion) and 6 velocity entries.
NQ == 28

NV == 25

\* 0-based qvel indices of each body's degrees of freedom
ArmDofs == 0..6

PuckDofs == 7..12

HandGoalDofs == 13..18

PuckGoalDofs == 19..24

\* s[a:b] = vals
Assign(s, a, b, vals) == SubSeq(s, 1, a) \o vals \o SubSeq(s, b + 1, Len(s))

\* the end-effector positions the arm is seen at: the first is the one of
\* the canonical arm angles, the others are where the engine may bring it
EndeffGrid ==
    << <<0, 400, 20>>, <<-50, 600, 20>>, <<-50, 630, 20>>, <<20, 580, 60>> >>

\* the arm angles of the k-th end-effector position (k = 0: canonical)
ArmPose(k) == <<init_angles[1] + k>> \o SubSeq(init_angles, 2, 7)

\* what the engine may do in one do_simulation call: where the arm comes
\* to (arm), where the puck comes to (puck, <<>>: it is not moved), and the
\* velocity it leaves on the arm's and the puck's degrees of freedom (v)
PhysOutcomes ==
    { [arm |-> 0, puck |-> <<>>, v |-> 0],
      [arm |-> 1, puck |-> <<50, 600, 0>>, v |-> 0],
      [arm |-> 2, puck |-> <<50, 630, 0>>, v |-> 3],
      [arm |-> 3, puck |-> <<80, 600, 300>>, v |-> 3] }

\* the bookkeeping of one operation: the simulator state it works on, the
\* engine calls it has made and the exception it has raised ("none": none)
World ==
    [ qpos |-> qpos, qvel |-> qvel, mocap_pos |-> mocap_pos, goal |-> goal,
      calls |-> <<>>, wrote |-> {}, raised |-> "none" ]

Call(w, f, arg) == [w EXCEPT !.calls = Append(@, [f |-> f, arg |-> arg])]

Raise(w, e) == [w EXCEPT !.raised = e]

\* MujocoEnv.set_state: both vectors are replaced and forward() recomputes
\* the body poses
set_state(w, qp, qv) ==
    [Call(w, "set_state", qp \o qv) EXCEPT !.qpos = qp, !.qvel = qv]

\* data.set_mocap_pos('mocap', pos)
set_mocap_pos(w, pos) ==
    [Call(w, "set_mocap_pos", pos) EXCEPT !.mocap_pos = pos]

\* do_simulation(u, frame_skip) with zero torques
do_simulation(w, out) ==
    LET qa == Assign(w.qpos, 0, 7, ArmPose(out.arm))
        qp == IF out.puck = <<>> THEN qa
              ELSE Assign(Assign(qa, 7, 10, <<out.puck[1], out.puck[2], BodyZ>>),
                          10, 14, theta_to_quat(out.puck[3]))
        qv == Assign(w.qvel, 0, 13, [i \in 1..13 |-> out.v] \o <<>>)
    IN  [Call(w, "do_simulation", <<>>) EXCEPT !.qpos = qp, !.qvel = qv]

-----------------------------------------------------------------------------
(* State accessors *)

get_endeff_pos(q) == EndeffGrid[q[1] - init_angles[1] + 1]

get_puck_xytheta(q) ==
    <<q[8], q[9], quat_to_theta(q[12], q[13], q[14], q[11])>>

get_hand_goal_pos(q) == <<q[15], q[16], q[17]>>

get_puck_goal_xytheta(q) ==
    <<q[22], q[23], quat_to_theta(q[26], q[27], q[28], q[25])>>

-----------------------------------------------------------------------------
(* State mutators *)

\* a puck mutator that also stores the pose as the puck part of the goal
set_puck_xytheta_as_goal(w, xytheta) ==
    LET qp == Assign(Assign(w.qpos, 7, 10, <<xytheta[1], xytheta[2], BodyZ>>),
                     10, 14, theta_to_quat(xytheta[3]))
        qv == Assign(w.qvel, 7, 14, Zeros(7))
        w1 == [Call(w, "set_puck_xytheta", xytheta)
                 EXCEPT !.wrote = @ \cup (7..13),
                        !.goal = hstack(Slice(@, 0, 2), xytheta)]
    IN  set_state(w1, qp, qv)

set_puck_xytheta(w, xytheta) ==
    LET quat == theta_to_quat(xytheta[3])
        qp1 == Assign(w.qpos, 7, 10, <<xytheta[1], xytheta[2], BodyZ>>)
        qp2 == Assign(qp1, 10, 14, quat)
        qv1 == Assign(w.qvel, 7, 10, Zeros(3))
        qv2 == Assign(qv1, 10, 14, Zeros(4))
        w1 == [Call(w, "set_puck_xytheta", xytheta)
                 EXCEPT !.wrote = @ \cup (7..9) \cup (10..13)]
    IN  set_state(w1, qp2, qv2)

set_goal_xyxytheta(w, xyxytheta) ==
    LET hand_goal == Slice(xyxytheta, 0, 2)
        puck_xy_goal == Slice(xyxytheta, 2, 4)
        puck_theta_goal == Last(xyxytheta)
        puck_quat_goal == theta_to_quat(puck_theta_goal)
        qp1 == Assign(w.qpos, 14, 17, hstack(hand_goal, <<BodyZ>>))
        qv1 == Assign(w.qvel, 14, 17, Zeros(3))
        qp2 == Assign(qp1, 21, 24, hstack(puck_xy_goal, <<BodyZ>>))
        qv2 == Assign(qv1, 21, 24, Zeros(3))
        qp3 == Assign(qp2, 24, 28, puck_quat_goal)
        w1 == [Call(w, "set_goal_xyxytheta", xyxytheta)
                 EXCEPT !.goal = xyxytheta,
                        !.wrote = @ \cup (14..16) \cup (21..23)]
    IN  set_state(w1, qp3, qv2)

\* the loop body of set_hand_xy: command the target, advance the engine
RECURSIVE set_hand_xy_loop(_, _, _, _)
set_hand_xy_loop(w, xy, out, n) ==
    IF n = 0 THEN w
    ELSE set_hand_xy_loop(
             do_simulation(set_mocap_pos(w, <<xy[1], xy[2], BodyZ>>), out),
             xy, out, n - 1)

set_hand_xy(w, xy, out) == set_hand_xy_loop(w, xy, out, Repeats)

-----------------------------------------------------------------------------
(* Goal sampling *)

\* np.random.uniform(low, high): the draws explored are the low corner
\* and the centre of the box
Uniform(low, high) ==
    { low, [i \in 1..Len(low) |-> (low[i] + high[i]) \div 2] \o <<>> }

\* the vectors sample_goal_xyxytheta can return
sample_goal_xyxytheta(c) ==
    IF c.randomize_goals
    THEN { hstack(hand, puck) :
             hand \in Uniform(c.hand_goal_low, c.hand_goal_high),
             puck \in Uniform(c.puck_goal_low, c.puck_goal_high) }
    ELSE { hstack(c.fixed_hand_goal, c.fixed_puck_goal) }

\* the poses SawyerPushAndReachTXYEasyEnv.sample_puck_xytheta can return:
\* (0, 0.6, theta) with theta in [-pi/2, pi/2)
sample_puck_xytheta == { <<0, 600, 0>>, <<0, 600, 300>> }

-----------------------------------------------------------------------------
(* Observation and reward *)

\* _get_obs
get_obs(w) ==
    LET e == Slice(get_endeff_pos(w.qpos), 0, 2)
        b == Slice(get_puck_xytheta(w.qpos), 0, 3)
        x == hstack(e, b)
        g == w.goal
    IN  [ observation |-> x, state_observation |-> x,
          desired_goal |-> g, state_desired_goal |-> g,
          achieved_goal |-> x, state_achieved_goal |-> x ]

\* a reward over the planar coordinates only, the puck angle left out
compute_reward_xy(action, obs) ==
    -Norm(VecSub(Slice(obs.state_achieved_goal, 0, 4),
                 Slice(obs.state_desired_goal, 0, 4)))

\* compute_reward(action, obs), for vectors of one length
compute_reward(action, obs) ==
    -Norm(VecSub(obs.state_achieved_goal, obs.state_desired_goal))

\* a success flag that counts the boundary in
success_flag_le(hand_distance, puck_distance) ==
    hand_distance + puck_distance <= SuccessBelow

\* float(hand_distance + puck_distance < 0.06)
success_flag(hand_distance, puck_distance) ==
    hand_distance + puck_distance < SuccessBelow

\* the diagnostics record of step
step_info(q) ==
    LET endeff == get_endeff_pos(q)
        puck == get_puck_xytheta(q)
        puck_goal == get_puck_goal_xytheta(q)
        hand_distance == Norm(VecSub(get_hand_goal_pos(q), endeff))
        puck_distance == Norm(VecSub(puck_goal, puck))
        puck_xy_distance ==
            Norm(VecSub(Slice(puck_goal, 0, 2), Slice(puck, 0, 2)))
        puck_theta_distance == Abs(puck_goal[3] - puck[3])
        touch_distance == Norm(VecSub(endeff, puck))
    IN  [ hand_distance |-> hand_distance,
          puck_distance |-> puck_distance,
          puck_xy_distance |-> puck_xy_distance,
          puck_theta_distance |-> puck_theta_distance,
          touch_distance |-> touch_distance,
          success |-> success_flag(hand_distance, puck_distance) ]

-----------------------------------------------------------------------------
(* The control step *)

\* x * self._pos_action_scale
Scale(x) == RoundDiv(x * cfg.pos_action_scale[1], cfg.pos_action_scale[2])

\* a vertical term of the wrong sign: height minus target
scaled_action_away(a, mocap_z) ==
    << Scale(ClipScalar(a[1], -1000, 1000)), Scale(ClipScalar(a[2], -1000, 1000)),
       Scale(mocap_z - TargetZ) >>

\* new_mocap_action[:3] * self._pos_action_scale
scaled_action(a, mocap_z) ==
    LET clipped == <<ClipScalar(a[1], -1000, 1000), ClipScalar(a[2], -1000, 1000)>>
        mocap_delta_z == TargetZ - mocap_z
        new_mocap_action == hstack(clipped, <<mocap_delta_z>>)
    IN  << Scale(new_mocap_action[1]), Scale(new_mocap_action[2]),
           Scale(new_mocap_action[3]) >>

mocap_set_action(w, action) ==
    LET new_mocap_pos ==
            ClipVec(VecAdd(w.mocap_pos, action), cfg.mocap_low, cfg.mocap_high)
    IN  set_mocap_pos(w, new_mocap_pos)

\* the puck-in-goal-space constraint of step
force_puck(w) ==
    IF ~cfg.force_puck_in_goal_space THEN w
    ELSE LET puck_pos == get_puck_xytheta(w.qpos)
         IN  IF ~Broadcasts(Len(puck_pos), Len(cfg.puck_goal_low))
             THEN Raise(w, "ValueError")
             ELSE LET clipped ==
                          ClipVec(puck_pos, cfg.puck_goal_low, cfg.puck_goal_high)
                  IN  IF clipped # puck_pos
                      THEN set_puck_xytheta(w, clipped)
                      ELSE w

\* step up to and including do_simulation
step_world(w, a, out) ==
    LET w1 == mocap_set_action(w, scaled_action(a, w.mocap_pos[3]))
        w2 == force_puck(w1)
    IN  IF w2.raised # "none" THEN w2 ELSE do_simulation(w2, out)

\* what step returns for the world it has produced
step_return(w, a) ==
    LET obs == get_obs(w)
    IN  IF w.raised # "none"
        THEN [op |-> "step", raised |-> w.raised, action |-> a]
        ELSE IF ~Broadcasts(Len(obs.state_achieved_goal),
                            Len(obs.state_desired_goal))
        THEN [op |-> "step", raised |-> "ValueError", action |-> a]
        ELSE [ op |-> "step", raised |-> "none", action |-> a, obs |-> obs,
               reward |-> compute_reward(a, obs), done |-> FALSE,
               info |-> step_info(w.qpos) ]

-----------------------------------------------------------------------------
(* Reset *)

RECURSIVE reset_mocap_loop(_, _)
reset_mocap_loop(w, n) ==
    IF n = 0 THEN w
    ELSE reset_mocap_loop(set_mocap_pos(w, INIT_HAND_POS), n - 1)

\* a reset that keeps the stored goal instead of resampling it
reset_world_keeps_goal(w, g, p) ==
    LET w1 == set_state(w, init_angles, w.qvel)
        w2 == reset_mocap_loop(w1, Repeats)
        w3 == set_goal_xyxytheta(w2, w2.goal)
    IN  set_puck_xytheta(w3, p)

\* reset, for the goal g and the puck pose p the samplers return
reset_world(w, g, p) ==
    LET velocities == w.qvel
        angles == init_angles
        w1 == set_state(w, angles, velocities)
        w2 == reset_mocap_loop(w1, Repeats)
        w3 == set_goal_xyxytheta([w2 EXCEPT !.goal = g], g)
    IN  set_puck_xytheta(w3, p)

-----------------------------------------------------------------------------
(* The operations *)

Install(w) ==
    /\ qpos' = w.qpos
    /\ qvel' = w.qvel
    /\ mocap_pos' = w.mocap_pos
    /\ goal' = w.goal
    /\ calls' = w.calls
    /\ wrote' = w.wrote
    /\ saved' = saved

\* the actions a caller passes to step: within the action box and beyond
Actions == { <<0, 0>>, <<1500, -2000>> }

\* the goals a caller passes to set_goal: two goals of the goal space
SetGoalInputs == { <<-50, 600, 50, 601, 0>>, <<-50, 599, 50, 600, 0>> }

\* the goals a caller passes to set_to_goal: one of the goal space, one
\* beyond it
SetToGoalInputs == { <<-50, 600, 50, 600, 0>>, <<150, 600, 0, 630, 100>> }

\* the poses a caller passes to set_puck_xytheta
PuckInputs == { <<250, 600, 300>> }

Reset ==
    \E g \in sample_goal_xyxytheta(cfg), p \in sample_puck_xytheta :
        LET w == reset_world(World, g, p)
        IN  /\ Install(w)
            /\ ret' = [op |-> "reset", raised |-> "none", obs |-> get_obs(w)]
            /\ nsteps' = 0
            /\ UNCHANGED cfg

\* one step call with an action of acts
StepWith(acts) ==
    \E a \in acts, out \in PhysOutcomes :
        LET w == step_world(World, a, out)
        IN  /\ Install(w)
            /\ ret' = step_return(w, a)
            /\ nsteps' = IF nsteps < MaxSteps THEN nsteps + 1 ELSE nsteps
            /\ UNCHANGED cfg

Step ==
    /\ nsteps < MaxSteps
    /\ StepWith(Actions)

\* a step with the action (0, 0), as often as the caller likes
StepHold == StepWith({<<0, 0>>})

SetGoal ==
    \E g \in SetGoalInputs :
        /\ Install(set_goal_xyxytheta(World, g))
        /\ ret' = [op |-> "set_goal", raised |-> "none", arg |-> g]
        /\ UNCHANGED <<cfg, nsteps>>

SetToGoal ==
    \E g \in SetToGoalInputs, out \in PhysOutcomes :
        LET w1 == set_hand_xy(World, Slice(g, 0, 2), out)
            w2 == set_puck_xytheta(w1, Tail3(g))
        IN  /\ Install(w2)
            /\ ret' = [op |-> "set_to_goal", raised |-> "none", arg |-> g]
            /\ UNCHANGED <<cfg, nsteps>>

SetPuckXYTheta ==
    \E p \in PuckInputs :
        /\ Install(set_puck_xytheta(World, p))
        /\ ret' = [op |-> "set_puck_xytheta", raised |-> "none", arg |-> p]
        /\ UNCHANGED <<cfg, nsteps>>

\* get_env_state returns a deep copy of the joint state and the mocap state
get_env_state(w) ==
    [qpos |-> w.qpos, qvel |-> w.qvel, mocap_pos |-> w.mocap_pos]

\* set_env_state writes the joint state and the mocap state back and calls
\* forward(); it assigns nothing else
set_env_state(w, state) ==
    set_mocap_pos(set_state(w, state.qpos, state.qvel), state.mocap_pos)

\* the caller takes a checkpoint, replacing the one held
GetEnvState ==
    /\ saved' = <<get_env_state(World)>>
    /\ calls' = <<>>
    /\ wrote' = {}
    /\ ret' = [op |-> "get_env_state", raised |-> "none"]
    /\ UNCHANGED <<cfg, goal, qpos, qvel, mocap_pos, nsteps>>

\* the caller restores the checkpoint held
SetEnvState ==
    /\ saved # <<>>
    /\ Install(set_env_state(World, saved[1]))
    /\ ret' = [op |-> "set_env_state", raised |-> "none"]
    /\ UNCHANGED <<cfg, nsteps>>

\* get_goal reads the stored goal and changes nothing
get_goal == [desired_goal |-> goal, state_desired_goal |-> goal]

\* the state __init__ leaves: the goal is sampled, the model is loaded with
\* zero velocities, and reset() is called
Init ==
    \E c \in Configs :
        /\ cfg = c
        /\ \E g0 \in sample_goal_xyxytheta(c), g \in sample_goal_xyxytheta(c),
              p \in sample_puck_xytheta :
                LET loaded == [ qpos |-> init_angles, qvel |-> Zeros(NV),
                                mocap_pos |-> INIT_HAND_POS, goal |-> g0,
                                calls |-> <<>>, wrote |-> {}, raised |-> "none" ]
                    w == reset_world(loaded, g, p)
                IN  /\ qpos = w.qpos
                    /\ qvel = w.qvel
                    /\ mocap_pos = w.mocap_pos
                    /\ goal = w.goal
                    /\ calls = w.calls
                    /\ wrote = w.wrote
                    /\ ret = [op |-> "__init__", raised |-> "none"]
                    /\ nsteps = 0
                    /\ saved = <<>>

Next ==
    \/ Reset
    \/ Step
    \/ SetGoal
    \/ SetToGoal
    \/ SetPuckXYTheta

Spec == Init /\ [][Next]_vars

\* holding still: episodes of steps with the action (0, 0), of any length
NextHold ==
    \/ Reset
    \/ SetToGoal
    \/ StepHold

SpecHold == Init /\ [][NextHold]_vars

\* checkpointing: goals are set and resampled between taking a checkpoint
\* and restoring it
NextCheckpoint ==
    \/ Reset
    \/ SetGoal
    \/ GetEnvState
    \/ SetEnvState

SpecCheckpoint == Init /\ [][NextCheckpoint]_vars

-----------------------------------------------------------------------------
(* The claims *)

InBox(v, low, high) == \A i \in 1..Len(v) : low[i] <= v[i] /\ v[i] <= high[i]

\* the arguments of the calls of f the last operation made, in order
ArgsOf(f) == { calls[i].arg : i \in { j \in 1..Len(calls) : calls[j].f = f } }

\* C1: every position written as the mocap position, and so the mocap
\* position of every reachable state, lies inside [mocap_low, mocap_high].
C1_MocapAlwaysInBox ==
    /\ InBox(mocap_pos, cfg.mocap_low, cfg.mocap_high)
    /\ \A pos \in ArgsOf("set_mocap_pos") :
           InBox(pos, cfg.mocap_low, cfg.mocap_high)

\* C2: the stored goal always has exactly five scalars, the length of the
\* observation vector.
C2_GoalHasFiveScalars ==
    /\ Len(goal) = 5
    /\ Len(goal) = Len(get_obs(World).observation)

\* the configuration of the repeated-reset scenario
FixedGoalScenario ==
    /\ ~cfg.randomize_goals
    /\ cfg.fixed_puck_goal = <<50, 600, 0>>
    /\ cfg.fixed_hand_goal = <<-50, 600>>

\* C3: with goal randomization disabled, the desired_goal every reset
\* returns is the fixed hand goal followed by the fixed puck goal; with the
\* fixed goals (-0.05, 0.6) and (0.05, 0.6, 0.0) it is
\* (-0.05, 0.6, 0.05, 0.6, 0.0), whatever was called before the reset.
C3_FixedGoalAfterEveryReset ==
    (ret.op = "reset" /\ ~cfg.randomize_goals) =>
        /\ ret.obs.desired_goal = hstack(cfg.fixed_hand_goal, cfg.fixed_puck_goal)
        /\ ret.obs.state_desired_goal = ret.obs.desired_goal
        /\ FixedGoalScenario => ret.obs.desired_goal = <<-50, 600, 50, 600, 0>>

\* a reset of the scenario that followed a step: the arm still has the
\* velocity the engine left on it
C3_Witness ==
    /\ ret.op = "reset"
    /\ FixedGoalScenario
    /\ qvel[1] # 0
    /\ ret.obs.desired_goal = <<-50, 600, 50, 600, 0>>

\* C4: step, set_to_goal and set_puck_xytheta leave the stored goal
\* unchanged; set_goal(g) stores g, which get_goal then returns; and the
\* desired-goal slots of the observation a step returns hold the goal that
\* was stored when the step was called.
C4_GoalChangesOnlyOnResetAndSetGoal ==
    [][ /\ ret'.op \in {"step", "set_to_goal", "set_puck_xytheta"} => goal' = goal
        /\ ret'.op = "set_goal" =>
              /\ goal' = ret'.arg
              /\ get_goal'.desired_goal = ret'.arg
              /\ get_goal'.state_desired_goal = ret'.arg
        /\ (ret'.op = "step" /\ ret'.raised = "none") =>
              /\ ret'.obs.desired_goal = goal
              /\ ret'.obs.state_desired_goal = goal ]_vars

\* a step that returned the goal an earlier set_goal stored: no sampler
\* returns that goal
C4_Witness ==
    /\ ret.op = "step"
    /\ ret.raised = "none"
    /\ nsteps = 2
    /\ goal = <<-50, 600, 50, 601, 0>>
    /\ ret.obs.desired_goal = goal

\* C5: the reward a step returns is minus the Euclidean distance between
\* the achieved and the desired goal over all five scalars (at the model's
\* resolution: its magnitude is the integer part of the distance), so it
\* is a function of the observation alone, never positive, and zero when
\* the two goals are equal.
C5_RewardIsNegatedDistance ==
    (ret.op = "step" /\ ret.raised = "none") =>
        LET a == ret.obs.achieved_goal
            d == ret.obs.desired_goal
            sq == (a[1] - d[1]) * (a[1] - d[1]) + (a[2] - d[2]) * (a[2] - d[2])
                  + (a[3] - d[3]) * (a[3] - d[3]) + (a[4] - d[4]) * (a[4] - d[4])
                  + (a[5] - d[5]) * (a[5] - d[5])
            r == ret.reward
        IN  /\ Len(a) = 5 /\ Len(d) = 5
            /\ r <= 0
            /\ r * r <= sq
            /\ sq < (1 - r) * (1 - r)
            /\ a = d => r = 0

\* a step whose achieved goal is the desired goal
C5_Witness ==
    /\ ret.op = "step"
    /\ ret.raised = "none"
    /\ ret.obs.achieved_goal = ret.obs.desired_goal
    /\ ret.reward = 0

\* C6: in the diagnostics of every step, success is true exactly when
\* hand_distance + puck_distance of the same record is below 0.06.
C6_SuccessIffBelowThreshold ==
    (ret.op = "step" /\ ret.raised = "none") =>
        (ret.info.success <=>
            ret.info.hand_distance + ret.info.puck_distance < 60)

\* a step whose two distances add up to exactly 0.06: not a success
C6_Witness ==
    /\ ret.op = "step"
    /\ ret.raised = "none"
    /\ ret.info.hand_distance + ret.info.puck_distance = 60
    /\ ~ret.info.success

\* the names of the calls the last operation made, in order
CallNames == [i \in 1..Len(calls) |-> calls[i].f]

\* C7: with the puck constraint enabled, a step called with the puck pose
\* outside [puck_goal_low, puck_goal_high] writes the pose clipped into the
\* box with set_puck_xytheta, after the mocap command and before the
\* engine is advanced; a step called with the pose inside the box does not
\* write the puck pose.
C7_StepClipsPuckIntoGoalBox ==
    [][ (ret'.op = "step" /\ cfg.force_puck_in_goal_space) =>
          LET pose == get_puck_xytheta(qpos)
              low == cfg.puck_goal_low
              high == cfg.puck_goal_high
              bounded == 1..Len(low)
              outside == \E i \in bounded : pose[i] < low[i] \/ pose[i] > high[i]
              clipped == [i \in 1..3 |->
                            IF i \in bounded
                            THEN ClipScalar(pose[i], low[i], high[i])
                            ELSE pose[i]]
          IN  IF outside
              THEN /\ CallNames' = << "set_mocap_pos", "set_puck_xytheta",
                                      "set_state", "do_simulation" >>
                   /\ calls'[2].arg = clipped
                   /\ Slice(calls'[3].arg, 7, 14) =
                         <<clipped[1], clipped[2], 20>> \o theta_to_quat(clipped[3])
              ELSE "set_puck_xytheta" \notin { CallNames'[i] : i \in 1..Len(calls') }
      ]_vars

\* C8: the first thing reset does is to write the canonical joint
\* positions with every joint velocity zero.
C8_ResetZeroesVelocities ==
    ret.op = "reset" =>
        /\ calls[1].f = "set_state"
        /\ Slice(calls[1].arg, 0, NQ) = init_angles
        /\ \A i \in NQ + 1 .. NQ + NV : calls[1].arg[i] = 0

\* C9: set_puck_xytheta(x, y, theta) writes (x, y, 0.02) and the rotation
\* by theta as the puck's pose, zeroes the puck's six velocity entries, and
\* leaves every other joint position and velocity, the mocap position and
\* the stored goal as they were; the velocity entries it assigns are the
\* puck's own.
C9_SetPuckAffectsOnlyPuck ==
    [][ ret'.op = "set_puck_xytheta" =>
          /\ Slice(qpos', 7, 14) =
                <<ret'.arg[1], ret'.arg[2], 20>> \o theta_to_quat(ret'.arg[3])
          /\ Slice(qpos', 0, 7) = Slice(qpos, 0, 7)
          /\ Slice(qpos', 14, NQ) = Slice(qpos, 14, NQ)
          /\ \A i \in PuckDofs : qvel'[i + 1] = 0
          /\ \A i \in (0 .. NV - 1) \ PuckDofs : qvel'[i + 1] = qvel[i + 1]
          /\ mocap_pos' = mocap_pos
          /\ goal' = goal
          /\ wrote' = PuckDofs
      ]_vars

\* C10: a step with the action (0, 0) moves the mocap height by the
\* correction 0.06 - height times 2/100 (to the nearest unit), so the
\* distance to 0.06 never grows and shrinks as long as the scaled
\* correction is at least half a unit; the mocap x and y are only clipped
\* into the box.
C10_ZeroActionApproachesTargetHeight ==
    [][ (ret'.op = "step" /\ ret'.action = <<0, 0>>) =>
          LET d == 60 - mocap_pos[3]
              d1 == 60 - mocap_pos'[3]
              moved == mocap_pos'[3] - mocap_pos[3]
          IN  /\ Abs(d1) <= Abs(d)
              /\ Abs(100 * moved - 2 * d) <= 50
              /\ Abs(d) >= 25 => Abs(d1) < Abs(d)
              /\ mocap_pos'[1] = ClipScalar(mocap_pos[1], -100, 100)
              /\ mocap_pos'[2] = ClipScalar(mocap_pos[2], 500, 700)
      ]_vars

\* sixteen steps with the action (0, 0) after a reset: the correction has
\* shrunk from 0.04 to 0.024, below the resolution of the scaled term
C10_Witness ==
    /\ ret.op = "step"
    /\ ret.action = <<0, 0>>
    /\ mocap_pos = <<0, 500, 36>>

\* C11: at every operation boundary the goal markers encode the stored
\* goal: for a stored goal of five scalars (C2), the hand-goal marker's xy
\* is the goal's hand xy and the puck-goal marker's (x, y, theta) is the
\* goal's puck (x, y, theta).
C11_MarkersEncodeStoredGoal ==
    Len(goal) = 5 =>
        /\ Slice(get_hand_goal_pos(qpos), 0, 2) = Slice(goal, 0, 2)
        /\ get_puck_goal_xytheta(qpos) = Slice(goal, 2, 5)

====
